---- MODULE Spec2Model ----
(***************************************************************************)
(* Job-agent workflow orchestration engine: one Run driven by the Celery   *)
(* task execute_job_search_workflow through JobSearchWorkflow.run and its  *)
(* seven nodes, with the per-item research / fabrication retry state       *)
(* machines, the completion detector and the delivery trigger.             *)
(*                                                                         *)
(* One worker executes the Run at a time (the task queue delivers one      *)
(* message per execution); the task may be executed again for the same Run *)
(* (Celery retry, re-drive), each time re-entering the workflow from the   *)
(* top.  External providers (job search, AI, research, e-mail) and the     *)
(* posting lookup are nondeterministic inputs; database commits succeed.   *)
(*                                                                         *)
(* Spec follows the executions in which workflow.run returns to the task;  *)
(* RetrySpec follows the task's except branch and Celery's retry for one   *)
(* enqueued request, with the workflow reduced to its outcome (a returned  *)
(* context or an escaping exception with its __cause__ chain).             *)
(* DriverSpec follows two invocations of the task for the same Run (a      *)
(* duplicate delivery, or a retry that overlaps the first execution) from  *)
(* ResearchNode to the return of FabricationNode, interleaved at the       *)
(* provider calls.  PublishSpec applies publish_run_status to every event  *)
(* and every behaviour of the Redis client.                                *)
(***************************************************************************)
EXTENDS Naturals, Integers, Sequences, FiniteSets, TLC

\* ---------------------------------------------------------------- bounds
MaxItems == 2
MaxChain == 2
\* two invocations for the same Run: rows of the Run, further executions
DriverItems == 1
MaxRestarts == 1

\* ------------------------------------------------------ program constants
\* ResearchNode(max_retries=3), FabricationNode(max_retries=DEFAULT_MAX_RETRIES)
max_retries == 3
\* self.retry(exc=exc, countdown=60, max_retries=3)
task_max_retries == 3

Items == 1..MaxItems

\* JobSearchWorkflow.__init__: the ordered node list
nodes == << "DiscoveryNode", "ProfilingNode", "MatchingNode", "ResearchNode",
            "FabricationNode", "CompletionNode", "DeliveryNode" >>

\* datetime.utcnow(), abstracted to the execution of the task in which it is
\* read: "t1" during the first execution for the Run, "t2" during any later
\* one ("t0": never written, the column is NULL).
Later(t) == IF t = "t0" THEN "t1" ELSE "t2"

\* Results of a primary-key lookup of a MatchedJob's JobPosting
\* (GenericRepository.get returns the row or None).
PostingLookup == BOOLEAN

VARIABLES
    run,               \* the Run row
    mj,                \* the MatchedJob rows of the Run, by item id
    company_research,  \* items whose posting has a CompanyResearch row
    artifacts,         \* number of Artifact rows, by owning item
    context,           \* the in-memory workflow Context of the current execution
    pc,                \* position of the worker
    i_node,            \* index in nodes of the node to execute next
    matched_jobs,      \* items the running driver loop has still to visit
    cur,               \* item whose provider call is in flight (0: none)
    now,               \* value read by datetime.utcnow() in the current execution
    executed,          \* history: nodes whose run() was called in this execution
    first_error,       \* history: first node after which context.errors was non-empty
    completion,        \* history: result of the last completion check of this execution
    sent_at,           \* history: clock values of successful e-mail sends
    delivery_result,   \* history: what the delivery trigger did, until the workflow returns
    failures,          \* history: per item and axis, attempts that ended without success
    task,              \* the Celery task that executes the Run
    exc,               \* the exception caught by the task, with its __cause__ chain
    retries,           \* self.request.retries of the message being executed
    executions,        \* history: executions of the workflow for the enqueued request
    other,             \* the position of a second invocation for the Run, while
                       \* this worker's steps are followed
    publisher,         \* the Redis channel run:status:{run_id} and the last call
                       \* of publish_run_status
    subscriber         \* one SSE stream of the Run: _sse_run_status_stream

vars == << run, mj, company_research, artifacts, context, pc, i_node, matched_jobs,
           cur, now, executed, first_error, completion, sent_at, delivery_result,
           failures, task, exc, retries, executions, other, publisher, subscriber >>

\* what the workflow and its nodes read and write
workflow_vars == << mj, company_research, artifacts, context, i_node, matched_jobs,
                    cur, now, executed, first_error, completion, sent_at,
                    delivery_result, failures >>

\* what the workflow's nodes leave alone: the state of the task's except branch
\* and of Celery's retry, the second invocation and the status channel
adapter_vars == << task, exc, retries, executions, other, publisher, subscriber >>

\* ---------------------------------------------------------------- helpers
Created == { i \in Items : mj[i].created }

Min(S) == CHOOSE x \in S : \A y \in S : x <= y

\* "; ".join(result.errors)
RECURSIVE JoinErrors(_)
JoinErrors(errors) ==
    IF errors = << >> THEN ""
    ELSE IF Len(errors) = 1 THEN errors[1]
    ELSE errors[1] \o "; " \o JoinErrors(Tail(errors))

\* BaseContext.has_errors
has_errors(c) == Len(c.errors) > 0

\* BaseContext.add_error
add_error(c, e) == [c EXCEPT !.errors = Append(@, e)]

\* JobSearchWorkflowContext(**context_data): the context the API serialized
\* (run_id set, no jobs, no profile text, no errors)
NewContext ==
    [ errors |-> << >>, jobs |-> FALSE, job_search_id |-> FALSE,
      user_profile |-> FALSE ]

NewMatchedJob ==
    [ created |-> FALSE,
      research_status |-> "pending", research_attempts |-> 0,
      fabrication_status |-> "pending", fabrication_attempts |-> 0 ]

\* Run(status="pending") as created by the API before the task is enqueued
NewRun ==
    [ status |-> "pending", error_message |-> "",
      total_matched_jobs |-> 0,
      research_completed_count |-> 0, research_failed_count |-> 0,
      fabrication_completed_count |-> 0, fabrication_failed_count |-> 0,
      completed_at |-> "t0",
      delivery_triggered |-> FALSE, delivery_triggered_at |-> "t0" ]

\* update_run_status(run_id, status, error_message=None)
update_run_status(r, status, error_message) ==
    [r EXCEPT !.status = status,
              !.error_message = IF error_message = "" THEN @ ELSE error_message]

\* The delivery trigger has not been called in this execution
NoDelivery == [ status |-> "none", found |-> {}, completed_items |-> {} ]

\* No second invocation of the task for the Run
NoInvocation ==
    [ pc |-> "none", i_node |-> 0, matched_jobs |-> {}, cur |-> 0, executed |-> {} ]

\* No client has requested the Run's status stream
NoSubscriber ==
    [ pc |-> "idle", subscribed |-> FALSE, connection |-> "none",
      inbox |-> << >>, received |-> << >>, stream |-> << >> ]

\* Nothing has been published on the Run's channel
NoPublisher == [ channel |-> << >>, outcome |-> "none", raised |-> FALSE ]

\* ------------------------------------------------------- status publisher
\* What redis.Redis.from_url(url).publish(...) and client.close() do: the
\* message is published and the client closed; the import, the connection or
\* the publish raises; the message is published and close() raises
RedisOutcomes == {"published", "unavailable", "close_raised"}

\* The arguments of publish_run_status ("None": the keyword is not passed)
Statuses == {"processing", "completed", "failed"}
Nodes == {"None", "DiscoveryNode"}
ErrorMessages == {"None", "Node DiscoveryNode failed"}

\* publish_run_status, the payload: status, and the optional keys that are
\* not None
payload(status, node, error_message) ==
    {<< "status", status >>}
    \cup (IF node # "None" THEN {<< "node", node >>} ELSE {})
    \cup (IF error_message # "None" THEN {<< "error_message", error_message >>} ELSE {})

\* A publisher that lets the Redis client's exception escape
publish_run_status_reraise(p, event, outcome) ==
    [ channel |-> IF outcome = "unavailable" THEN p.channel ELSE Append(p.channel, event),
      outcome |-> outcome,
      raised  |-> outcome # "published" ]

\* publish_run_status, the try block and its `except Exception`: the
\* exception is logged, the function returns None
publish_run_status(p, event, outcome) ==
    [ channel |-> IF outcome = "unavailable" THEN p.channel ELSE Append(p.channel, event),
      outcome |-> outcome,
      raised  |-> FALSE ]

\* update_run_status announces the status it has written: one call of
\* publish_run_status, here with a Redis server that accepts the message
announce(p, status, error_message) ==
    publish_run_status(p, payload(status, "None", error_message), "published")

Init ==
    /\ run = NewRun
    /\ mj = [i \in Items |-> NewMatchedJob]
    /\ company_research = {}
    /\ artifacts = [i \in Items |-> 0]
    /\ context = NewContext
    /\ pc = "idle"
    /\ i_node = 0
    /\ matched_jobs = {}
    /\ cur = 0
    /\ now = "t0"
    /\ executed = {}
    /\ first_error = 0
    /\ completion = "unchecked"
    /\ sent_at = {}
    /\ delivery_result = NoDelivery
    /\ failures = [i \in Items |-> [research |-> 0, fabrication |-> 0]]
    /\ task = "job_search"
    /\ exc = << >>
    /\ retries = 0
    /\ executions = 0
    /\ other = NoInvocation
    /\ publisher = NoPublisher
    /\ subscriber = NoSubscriber

\* ------------------------------------------------------------ task adapter
\* execute_job_search_workflow, up to the call of workflow.run
TaskStart ==
    /\ pc = "idle"
    /\ run' = update_run_status(run, "processing", "")
    /\ context' = NewContext
    /\ pc' = "nodes"
    /\ i_node' = 1
    /\ now' = Later(now)
    /\ executed' = {}
    /\ first_error' = 0
    /\ completion' = "unchecked"
    /\ delivery_result' = NoDelivery
    /\ publisher' = announce(NoPublisher, "processing", "None")
    /\ UNCHANGED << mj, company_research, artifacts, matched_jobs, cur, sent_at, failures >>
    /\ UNCHANGED << task, exc, retries, executions, other, subscriber >>

\* ------------------------------------------------------ workflow orchestrator
\* A loop that goes from MatchingNode straight to FabricationNode
LoopStepSkipResearch(k, c) ==
    /\ context' = c
    /\ pc' = IF k < Len(nodes) THEN "nodes" ELSE "final"
    /\ i_node' = IF k = 3 THEN 5 ELSE IF k < Len(nodes) THEN k + 1 ELSE 0
    /\ executed' = executed \cup {k}
    /\ first_error' = IF first_error = 0 /\ has_errors(c) THEN k ELSE first_error

\* JobSearchWorkflow.run, the for loop: node k has returned or raised, the loop
\* goes on to node k+1 (or leaves the loop after the last node)
LoopStep(k, c) ==
    /\ context' = c
    /\ pc' = IF k < Len(nodes) THEN "nodes" ELSE "final"
    /\ i_node' = IF k < Len(nodes) THEN k + 1 ELSE 0
    /\ executed' = executed \cup {k}
    /\ first_error' = IF first_error = 0 /\ has_errors(c) THEN k ELSE first_error

\* JobSearchWorkflow.run, except branch: a node that raises
NodeRaised(k, c) == add_error(c, "Node " \o nodes[k] \o " failed")

\* DiscoveryNode._execute
DiscoveryNode ==
    /\ pc = "nodes" /\ i_node = 1
    /\ \E outcome \in {"jobs", "raise"} :
          LoopStep(1,
            CASE outcome = "jobs" ->
                   [context EXCEPT !.jobs = TRUE, !.job_search_id = TRUE]
              [] outcome = "raise" -> NodeRaised(1, context))
    /\ UNCHANGED << run, mj, company_research, artifacts, matched_jobs, cur, now,
                    completion, sent_at, failures >>
    /\ UNCHANGED delivery_result
    /\ UNCHANGED adapter_vars

\* ProfilingNode.run, for a request whose documents yield a non-empty profile
ProfilingNode ==
    /\ pc = "nodes" /\ i_node = 2
    /\ LoopStep(2, [context EXCEPT !.user_profile = TRUE])
    /\ UNCHANGED << run, mj, company_research, artifacts, matched_jobs, cur, now,
                    completion, sent_at, failures >>
    /\ UNCHANGED delivery_result
    /\ UNCHANGED adapter_vars

\* A persistence step that writes every row of the Run afresh
CreateMatchedJobsAfresh(rows, n) ==
    [i \in Items |->
        IF rows[i].created \/ i <= n
        THEN [NewMatchedJob EXCEPT !.created = TRUE]
        ELSE rows[i]]

\* MatchingNode._persist_data: one MatchedJob row per matched result
CreateMatchedJobs(rows, n) ==
    [i \in Items |->
        IF ~rows[i].created /\ i <= Cardinality({j \in Items : rows[j].created}) + n
        THEN [NewMatchedJob EXCEPT !.created = TRUE]
        ELSE rows[i]]

\* MatchingNode._execute
MatchingNode ==
    /\ pc = "nodes" /\ i_node = 3
    /\ IF ~context.user_profile
       THEN /\ LoopStep(3, add_error(context, "User profile is required for matching step"))
            /\ UNCHANGED mj
       ELSE IF ~context.jobs /\ ~context.job_search_id
       THEN /\ LoopStep(3, add_error(context,
                              "Jobs list or job_search_id is required for matching step"))
            /\ UNCHANGED mj
       ELSE IF ~context.jobs
       THEN /\ LoopStep(3, add_error(context, "No jobs available for matching"))
            /\ UNCHANGED mj
       ELSE \E n \in 0..(MaxItems - Cardinality(Created)) :
            /\ LoopStep(3, context)
            /\ mj' = IF context.job_search_id THEN CreateMatchedJobs(mj, n) ELSE mj
    /\ UNCHANGED << run, company_research, artifacts, matched_jobs, cur, now,
                    completion, sent_at, failures >>
    /\ UNCHANGED delivery_result
    /\ UNCHANGED adapter_vars

\* --------------------------------------------------------- research driver
\* A driver that skips no item
ResearchNeverSkipped(m) == FALSE

\* ResearchNode.run: "Skip if already completed"
ResearchAlreadyCompleted(m) == m.research_status = "completed"

\* ResearchNode.run: "Skip if max retries exceeded"
ResearchRetriesExceeded(m) ==
    m.research_attempts >= max_retries /\ m.research_status = "failed"

\* ResearchNode._research_company_for_job, except branch: status after a failed call
ResearchStatusOnFailure(m) ==
    IF m.research_attempts >= max_retries THEN "failed" ELSE "pending"

\* A per-item failure that marks the Run failed
ResearchFailureFailsRun(r, m) == [r EXCEPT !.status = "failed"]

\* ResearchNode._research_company_for_job, except branch: the Run's failed counter
ResearchFailedCount(r, m) ==
    IF m.research_attempts >= max_retries
    THEN [r EXCEPT !.research_failed_count = @ + 1]
    ELSE r

\* A completion that is never counted
ResearchCompletedCountNever(r, was_completed) == r

\* ResearchNode._research_company_for_job: the Run's completed counter, guarded
\* by the item's status read just before it is set to completed
ResearchCompletedCount(r, was_completed) ==
    IF ~was_completed THEN [r EXCEPT !.research_completed_count = @ + 1] ELSE r

\* ResearchNode.run: validation, then load of the Run's MatchedJob rows
ResearchLoad ==
    /\ pc = "nodes" /\ i_node = 4
    /\ IF Created = {}
       THEN /\ LoopStep(4, context)
            /\ UNCHANGED matched_jobs
       ELSE /\ matched_jobs' = Created
            /\ pc' = "research"
            /\ executed' = executed \cup {4}
            /\ UNCHANGED << context, i_node, first_error >>
    /\ UNCHANGED << run, mj, company_research, artifacts, cur, now, completion,
                    sent_at, failures >>
    /\ UNCHANGED delivery_result
    /\ UNCHANGED adapter_vars

\* ResearchNode.run, one iteration of the loop over the loaded rows, up to the
\* provider call of _research_company_for_job
ResearchItem ==
    /\ pc = "research" /\ matched_jobs # {}
    /\ LET i == Min(matched_jobs)
           m == mj[i]
       IN
       IF ResearchAlreadyCompleted(m) \/ ResearchRetriesExceeded(m)
       THEN /\ matched_jobs' = matched_jobs \ {i}
            /\ UNCHANGED << run, mj, pc, cur, failures >>
       ELSE \E found \in PostingLookup :
            IF ~found
            THEN \* job posting not found
                 /\ mj' = [mj EXCEPT ![i].research_status = "failed",
                                     ![i].research_attempts = @ + 1]
                 /\ failures' = [failures EXCEPT ![i].research = @ + 1]
                 /\ matched_jobs' = matched_jobs \ {i}
                 /\ UNCHANGED << run, pc, cur >>
            ELSE IF i \in company_research
            THEN \* research already exists
                 /\ mj' = [mj EXCEPT ![i].research_status = "completed"]
                 /\ run' = ResearchCompletedCount(run, m.research_status = "completed")
                 /\ matched_jobs' = matched_jobs \ {i}
                 /\ UNCHANGED << pc, cur, failures >>
            ELSE \* update status to processing, then call the provider
                 /\ mj' = [mj EXCEPT ![i].research_status = "processing",
                                     ![i].research_attempts = @ + 1]
                 /\ cur' = i
                 /\ pc' = "research_call"
                 /\ UNCHANGED << run, matched_jobs, failures >>
    /\ UNCHANGED << company_research, artifacts, context, i_node, now, executed,
                    first_error, completion, sent_at >>
    /\ UNCHANGED delivery_result
    /\ UNCHANGED adapter_vars

\* ResearchNode._research_company_for_job, after the provider call
ResearchResult ==
    /\ pc = "research_call"
    /\ LET m == mj[cur] IN
       \E ok \in BOOLEAN :
          IF ok
          THEN /\ company_research' = company_research \cup {cur}
               /\ mj' = [mj EXCEPT ![cur].research_status = "completed"]
               /\ run' = ResearchCompletedCount(run, m.research_status = "completed")
               /\ UNCHANGED failures
          ELSE /\ mj' = [mj EXCEPT ![cur].research_status = ResearchStatusOnFailure(m)]
               /\ run' = ResearchFailedCount(run, m)
               /\ failures' = [failures EXCEPT ![cur].research = @ + 1]
               /\ UNCHANGED company_research
    /\ matched_jobs' = matched_jobs \ {cur}
    /\ cur' = 0
    /\ pc' = "research"
    /\ UNCHANGED << artifacts, context, i_node, now, executed, first_error,
                    completion, sent_at >>
    /\ UNCHANGED delivery_result
    /\ UNCHANGED adapter_vars

\* ResearchNode.run: the loop is exhausted, the node returns the context
ResearchReturn ==
    /\ pc = "research" /\ matched_jobs = {}
    /\ LoopStep(4, context)
    /\ UNCHANGED << run, mj, company_research, artifacts, matched_jobs, cur, now,
                    completion, sent_at, failures >>
    /\ UNCHANGED delivery_result
    /\ UNCHANGED adapter_vars

\* ------------------------------------------------------ fabrication driver
\* A driver that skips no item
FabricationNeverSkipped(m) == FALSE

\* fabricate_matched_jobs_for_run: "Skip if already completed"
FabricationAlreadyCompleted(m) == m.fabrication_status = "completed"

\* fabricate_matched_jobs_for_run: "Skip if max retries exceeded"
FabricationRetriesExceeded(m) ==
    m.fabrication_attempts >= max_retries /\ m.fabrication_status = "failed"

\* fabricate_application_materials_for_job, except branch: status after a failure
FabricationStatusOnFailure(m) ==
    IF m.fabrication_attempts >= max_retries THEN "failed" ELSE "pending"

\* fabricate_application_materials_for_job, except branch: the Run's failed
\* counter; was_failed is read after the status has been assigned
FabricationFailedCount(r, m) ==
    LET was_failed == FabricationStatusOnFailure(m) = "failed" IN
    IF m.fabrication_attempts >= max_retries /\ ~was_failed
    THEN [r EXCEPT !.fabrication_failed_count = @ + 1]
    ELSE r

\* fabricate_application_materials_for_job: the Run's completed counter
FabricationCompletedCount(r, was_completed) ==
    IF ~was_completed THEN [r EXCEPT !.fabrication_completed_count = @ + 1] ELSE r

\* A driver that loads every row of the Run
FabricationCandidatesAll == Created

\* fabricate_matched_jobs_for_run: the rows the driver loads
FabricationCandidates == { i \in Created : mj[i].research_status = "completed" }

\* FabricationNode._execute and the query of fabricate_matched_jobs_for_run
FabricationLoad ==
    /\ pc = "nodes" /\ i_node = 5
    /\ IF FabricationCandidates = {}
       THEN /\ LoopStep(5, context)
            /\ UNCHANGED matched_jobs
       ELSE /\ matched_jobs' = FabricationCandidates
            /\ pc' = "fabrication"
            /\ executed' = executed \cup {5}
            /\ UNCHANGED << context, i_node, first_error >>
    /\ UNCHANGED << run, mj, company_research, artifacts, cur, now, completion,
                    sent_at, failures >>
    /\ UNCHANGED delivery_result
    /\ UNCHANGED adapter_vars

\* fabricate_matched_jobs_for_run, one iteration, up to the provider calls of
\* fabricate_application_materials_for_job
FabricationItem ==
    /\ pc = "fabrication" /\ matched_jobs # {}
    /\ LET i == Min(matched_jobs)
           m == mj[i]
       IN
       IF FabricationAlreadyCompleted(m) \/ FabricationRetriesExceeded(m)
       THEN /\ matched_jobs' = matched_jobs \ {i}
            /\ UNCHANGED << mj, pc, cur >>
       ELSE /\ mj' = [mj EXCEPT ![i].fabrication_status = "processing",
                                ![i].fabrication_attempts = @ + 1]
            /\ cur' = i
            /\ pc' = "fabrication_call"
            /\ UNCHANGED matched_jobs
    /\ UNCHANGED << run, company_research, artifacts, context, i_node, now, executed,
                    first_error, completion, sent_at, failures >>
    /\ UNCHANGED delivery_result
    /\ UNCHANGED adapter_vars

\* An Artifact row inserted whether or not the item owns one already
save_artifact_insert(rows, i) == [rows EXCEPT ![i] = @ + 1]

\* save_artifact: the item's existing row is updated in place, a row is
\* inserted only when the item owns none
save_artifact(rows, i) ==
    IF rows[i] > 0 THEN rows ELSE [rows EXCEPT ![i] = 1]

\* fabricate_application_materials_for_job, after the generation and PDF calls
FabricationResult ==
    /\ pc = "fabrication_call"
    /\ LET m == mj[cur] IN
       \E ok \in BOOLEAN :
          IF ok
          THEN /\ artifacts' = save_artifact(artifacts, cur)
               /\ mj' = [mj EXCEPT ![cur].fabrication_status = "completed"]
               /\ run' = FabricationCompletedCount(run, m.fabrication_status = "completed")
               /\ UNCHANGED failures
          ELSE /\ mj' = [mj EXCEPT ![cur].fabrication_status = FabricationStatusOnFailure(m)]
               /\ run' = FabricationFailedCount(run, m)
               /\ failures' = [failures EXCEPT ![cur].fabrication = @ + 1]
               /\ UNCHANGED artifacts
    /\ matched_jobs' = matched_jobs \ {cur}
    /\ cur' = 0
    /\ pc' = "fabrication"
    /\ UNCHANGED << company_research, context, i_node, now, executed, first_error,
                    completion, sent_at >>
    /\ UNCHANGED delivery_result
    /\ UNCHANGED adapter_vars

\* FabricationNode._execute: the driver has returned its counts
FabricationReturn ==
    /\ pc = "fabrication" /\ matched_jobs = {}
    /\ LoopStep(5, context)
    /\ UNCHANGED << run, mj, company_research, artifacts, matched_jobs, cur, now,
                    completion, sent_at, failures >>
    /\ UNCHANGED delivery_result
    /\ UNCHANGED adapter_vars

\* ------------------------------------------------------ completion detector
\* The completion check without its "no matched jobs" early return
check_all_finished(rows) ==
    /\ \A i \in rows : mj[i].research_status \in {"completed", "failed"}
    /\ \A i \in rows : mj[i].fabrication_status \in {"completed", "failed"}

\* CompletionNode._check_run_completion: the value it returns for the rows given
check_run_completion(rows) ==
    IF rows = {} THEN FALSE
    ELSE LET all_research_finished ==
                 \A i \in rows : mj[i].research_status \in {"completed", "failed"}
             all_fabrication_finished ==
                 \A i \in rows : mj[i].fabrication_status \in {"completed", "failed"}
         IN all_research_finished /\ all_fabrication_finished

\* CompletionNode.run
CompletionNode ==
    /\ pc = "nodes" /\ i_node = 6
    /\ LET is_complete == check_run_completion(Created) IN
       /\ run' = IF is_complete /\ run.status # "completed"
                 THEN [run EXCEPT !.status = "completed", !.completed_at = now]
                 ELSE run
       /\ completion' = IF is_complete THEN "complete" ELSE "incomplete"
    /\ LoopStep(6, context)
    /\ UNCHANGED << mj, company_research, artifacts, matched_jobs, cur, now, sent_at,
                    failures >>
    /\ UNCHANGED delivery_result
    /\ UNCHANGED adapter_vars

\* --------------------------------------------------------- delivery trigger
\* A gatherer that ignores the fabrication status
completed_items_any_fabrication(found) ==
    { i \in Created : mj[i].research_status = "completed" /\ i \in found }

\* A gatherer that returns every MatchedJob of the Run
completed_items_all(found) == Created

\* A trigger that marks the Run whatever the provider answered
DeliveryTriggeredAlways(r, send_success, t) ==
    [r EXCEPT !.delivery_triggered = TRUE, !.delivery_triggered_at = t]

\* DeliveryNode._get_completed_items_for_delivery; found: the items whose
\* posting lookup returned a row
completed_items(found) ==
    { i \in Created : /\ mj[i].research_status = "completed"
                      /\ mj[i].fabrication_status = "completed"
                      /\ i \in found
                      /\ artifacts[i] > 0 }

\* DeliveryNode._trigger_delivery: the Run row after the provider has answered
\* (send_success: the provider reported success; otherwise it reported failure
\* or raised)
DeliveryTriggered(r, send_success, t) ==
    IF send_success
    THEN [r EXCEPT !.delivery_triggered = TRUE, !.delivery_triggered_at = t]
    ELSE r

\* DeliveryNode._execute and _trigger_delivery
DeliveryNode ==
    /\ pc = "nodes" /\ i_node = 7
    /\ \E found \in SUBSET Created, success \in BOOLEAN :
          /\ (\A i \in Created : i \in found \/ FALSE \in PostingLookup)
          /\ IF completed_items(found) = {}
             THEN \* status no_items
                  /\ success
                  /\ delivery_result' = [ status |-> "no_items", found |-> found,
                                          completed_items |-> {} ]
                  /\ UNCHANGED << run, sent_at >>
             ELSE \* the package is handed to the provider
                  /\ run' = DeliveryTriggered(run, success, now)
                  /\ sent_at' = IF success THEN sent_at \cup {now} ELSE sent_at
                  /\ delivery_result' =
                        [ status |-> IF success THEN "delivered" ELSE "failed",
                          found |-> found,
                          completed_items |-> completed_items(found) ]
    /\ LoopStep(7, context)
    /\ UNCHANGED << mj, company_research, artifacts, matched_jobs, cur, now,
                    completion, failures >>
    /\ UNCHANGED adapter_vars

\* ------------------------------------------------------------ task adapter
\* An adapter that reports every returned context as a success
adapter_final_run_completed(r, result) == update_run_status(r, "completed", "")

\* execute_job_search_workflow: the Run row written after workflow.run has
\* returned result
adapter_final_run(r, result) ==
    LET final_status == IF has_errors(result) THEN "failed" ELSE "completed"
        error_message == IF has_errors(result) THEN JoinErrors(result.errors) ELSE ""
    IN update_run_status(r, final_status, error_message)

\* execute_job_search_workflow, after workflow.run has returned the context
TaskFinish ==
    /\ pc = "final"
    /\ run' = adapter_final_run(run, context)
    /\ pc' = "idle"
    /\ context' = NewContext
    /\ UNCHANGED << mj, company_research, artifacts, i_node, matched_jobs,
                    cur, now, executed, first_error, completion, sent_at, failures >>
    /\ delivery_result' = NoDelivery
    /\ publisher' = announce(publisher,
                             IF has_errors(context) THEN "failed" ELSE "completed",
                             IF has_errors(context) THEN JoinErrors(context.errors)
                                                    ELSE "None")
    /\ UNCHANGED << task, exc, retries, executions, other, subscriber >>

Next ==
    \/ TaskStart
    \/ DiscoveryNode
    \/ ProfilingNode
    \/ MatchingNode
    \/ ResearchLoad
    \/ ResearchItem
    \/ ResearchResult
    \/ ResearchReturn
    \/ FabricationLoad
    \/ FabricationItem
    \/ FabricationResult
    \/ FabricationReturn
    \/ CompletionNode
    \/ DeliveryNode
    \/ TaskFinish

Spec == Init /\ [][Next]_vars

\* Worker steps are taken as long as one is enabled, and the task is executed
\* again whenever the worker is idle (re-drive of the Run).
FairSpec == Spec /\ WF_vars(Next)

\* ------------------------------------------- task adapter, except branch
\* The exceptions that can escape workflow.run.  An exception carries its
\* type, its status_code attribute (0: none), whether str(exc) contains
\* "Event loop is closed", and whether its traceback contains one of the
\* httpx/httpcore/anyio cleanup markers.
StatusCodes == {0, 400, 499, 500}

Exceptions ==
    { [type |-> "ModelHTTPError", status_code |-> c, loop_closed |-> FALSE,
       cleanup_marker |-> FALSE] : c \in StatusCodes }
    \cup
    { [type |-> "RuntimeError", status_code |-> 0, loop_closed |-> l,
       cleanup_marker |-> m] : l \in BOOLEAN, m \in BOOLEAN }
    \cup
    { [type |-> "TimeoutError", status_code |-> 0, loop_closed |-> FALSE,
       cleanup_marker |-> FALSE] }

\* e[1] is the exception raised, e[k+1] is e[k].__cause__
ExceptionChains == UNION { [1..n -> Exceptions] : n \in 1..MaxChain }

\* str(exc)
str(e) ==
    IF e.loop_closed THEN "Event loop is closed"
    ELSE IF e.type = "ModelHTTPError" THEN "status_code: " \o ToString(e.status_code)
    ELSE e.type

\* job_search_task._is_retryable
RECURSIVE is_retryable(_)
is_retryable(e) ==
    IF e[1].type = "ModelHTTPError"
       /\ 400 <= e[1].status_code /\ e[1].status_code < 500
    THEN FALSE
    ELSE IF e[1].type = "RuntimeError" /\ e[1].loop_closed
    THEN FALSE
    ELSE IF Len(e) > 1
    THEN is_retryable(Tail(e))
    ELSE TRUE

\* A heuristic that takes every "Event loop is closed" error for a cleanup error
is_any_event_loop_error(e) == e[1].loop_closed

\* profiling_task._is_httpx_cleanup_event_loop_error(exc, tb_str), tb_str being
\* the traceback of exc formatted with its chain
is_httpx_cleanup_event_loop_error(e) ==
    e[1].loop_closed /\ \E k \in 1..Len(e) : e[k].cleanup_marker

\* profiling_task._is_retryable
RECURSIVE profiling_is_retryable(_)
profiling_is_retryable(e) ==
    IF e[1].type = "ModelHTTPError"
       /\ 400 <= e[1].status_code /\ e[1].status_code < 500
    THEN FALSE
    ELSE IF e[1].type = "RuntimeError" /\ e[1].loop_closed
    THEN ~is_httpx_cleanup_event_loop_error(e)
    ELSE IF Len(e) > 1
    THEN profiling_is_retryable(Tail(e))
    ELSE TRUE

\* A retry that is granted whatever the number of retries already made
retry_always(n) == TRUE

\* Task.retry(max_retries=3): the message is sent again unless
\* self.request.retries has reached max_retries
retry_allowed(n) == n < task_max_retries

\* The request has been enqueued by the API for a new Run
RetryInit ==
    /\ run = NewRun
    /\ mj = [i \in Items |-> NewMatchedJob]
    /\ company_research = {}
    /\ artifacts = [i \in Items |-> 0]
    /\ context = NewContext
    /\ pc = "queued"
    /\ i_node = 0
    /\ matched_jobs = {}
    /\ cur = 0
    /\ now = "t0"
    /\ executed = {}
    /\ first_error = 0
    /\ completion = "unchecked"
    /\ sent_at = {}
    /\ delivery_result = NoDelivery
    /\ failures = [i \in Items |-> [research |-> 0, fabrication |-> 0]]
    /\ task \in {"job_search", "profiling"}
    /\ exc = << >>
    /\ retries = 0
    /\ executions = 0
    /\ other = NoInvocation
    /\ publisher = NoPublisher
    /\ subscriber = NoSubscriber

\* execute_job_search_workflow / execute_profiling_workflow, up to the call of
\* workflow.run
AdapterStart ==
    /\ pc = "queued"
    /\ run' = update_run_status(run, "processing", "")
    /\ pc' = "running"
    /\ exc' = << >>
    /\ executions' = executions + 1
    /\ UNCHANGED << task, retries, other, publisher, subscriber >>
    /\ UNCHANGED workflow_vars

\* workflow.run returns its context to the task, with or without errors
WorkflowReturned ==
    /\ pc = "running"
    /\ \E result \in { NewContext, add_error(NewContext, "Node DiscoveryNode failed") } :
          run' = adapter_final_run(run, result)
    /\ pc' = "succeeded"
    /\ UNCHANGED adapter_vars
    /\ UNCHANGED workflow_vars

\* An exception escapes run_async(workflow.run(context)) into the except
\* branch of the task
WorkflowRaised ==
    /\ pc = "running"
    /\ \E e \in ExceptionChains : exc' = e
    /\ pc' = "except"
    /\ UNCHANGED << run, task, retries, executions, other, publisher, subscriber >>
    /\ UNCHANGED workflow_vars

\* `if not _is_retryable(exc): raise`, then
\* `raise self.retry(exc=exc, countdown=60, max_retries=3)`
RaiseOrRetry(retryable) ==
    IF retryable /\ retry_allowed(retries)
    THEN /\ pc' = "queued"
         /\ retries' = retries + 1
    ELSE /\ pc' = "raised"
         /\ UNCHANGED retries

\* execute_job_search_workflow, except branch
JobSearchExcept ==
    /\ pc = "except" /\ task = "job_search"
    /\ run' = update_run_status(run, "failed", str(exc[1]))
    /\ RaiseOrRetry(is_retryable(exc))
    /\ UNCHANGED << task, exc, executions, other, publisher, subscriber >>
    /\ UNCHANGED workflow_vars

\* execute_profiling_workflow, except branch (the context was reconstructed
\* before workflow.run was called)
ProfilingExcept ==
    /\ pc = "except" /\ task = "profiling"
    /\ IF is_httpx_cleanup_event_loop_error(exc)
       THEN \* soft success
            /\ run' = update_run_status(run, "completed", "soft-success warning")
            /\ pc' = "succeeded"
            /\ UNCHANGED retries
       ELSE /\ run' = update_run_status(run, "failed", str(exc[1]))
            /\ RaiseOrRetry(profiling_is_retryable(exc))
    /\ UNCHANGED << task, exc, executions, other, publisher, subscriber >>
    /\ UNCHANGED workflow_vars

RetryNext ==
    \/ AdapterStart
    \/ WorkflowReturned
    \/ WorkflowRaised
    \/ JobSearchExcept
    \/ ProfilingExcept

RetrySpec == RetryInit /\ [][RetryNext]_vars

\* ------------------------------------- two invocations for the same Run
\* JobSearchWorkflowContext after DiscoveryNode, ProfilingNode and
\* MatchingNode have returned without error
MatchedContext ==
    [ errors |-> << >>, jobs |-> TRUE, job_search_id |-> TRUE, user_profile |-> TRUE ]

\* JobSearchWorkflow.run: the loop has reached ResearchNode
AtResearchNode ==
    [ pc |-> "nodes", i_node |-> 4, matched_jobs |-> {}, cur |-> 0,
      executed |-> {1, 2, 3} ]

\* Both invocations have passed MatchingNode; the Run's MatchedJob rows are
\* committed and no item has been visited yet
DriverInit ==
    /\ run = update_run_status(NewRun, "processing", "")
    /\ mj = [i \in Items |-> IF i <= DriverItems
                              THEN [NewMatchedJob EXCEPT !.created = TRUE]
                              ELSE NewMatchedJob]
    /\ company_research = {}
    /\ artifacts = [i \in Items |-> 0]
    /\ context = MatchedContext
    /\ pc = AtResearchNode.pc
    /\ i_node = AtResearchNode.i_node
    /\ matched_jobs = AtResearchNode.matched_jobs
    /\ cur = AtResearchNode.cur
    /\ now = "t1"
    /\ executed = AtResearchNode.executed
    /\ first_error = 0
    /\ completion = "unchecked"
    /\ sent_at = {}
    /\ delivery_result = NoDelivery
    /\ failures = [i \in Items |-> [research |-> 0, fabrication |-> 0]]
    /\ task = "job_search"
    /\ exc = << >>
    /\ retries = 0
    /\ executions = 0
    /\ other = AtResearchNode
    /\ publisher = NoPublisher
    /\ subscriber = NoSubscriber

\* The worker processes run in parallel: the steps of the other invocation
\* are followed from here on (each worker keeps its own loop position and
\* list of loaded rows; the rows themselves are read from the database)
Switch ==
    /\ other' = [ pc |-> pc, i_node |-> i_node, matched_jobs |-> matched_jobs,
                  cur |-> cur, executed |-> executed ]
    /\ pc' = other.pc
    /\ i_node' = other.i_node
    /\ matched_jobs' = other.matched_jobs
    /\ cur' = other.cur
    /\ executed' = other.executed
    /\ UNCHANGED << run, mj, company_research, artifacts, context, now, first_error,
                    completion, sent_at, delivery_result, failures, task, exc,
                    retries, executions, publisher, subscriber >>

\* FabricationNode has returned; the task is executed once more for the Run
\* and its loop reaches ResearchNode again (MatchingNode matched nothing new)
DriverRestart ==
    /\ pc = "nodes" /\ i_node = 6
    /\ executions < MaxRestarts
    /\ executions' = executions + 1
    /\ i_node' = AtResearchNode.i_node
    /\ executed' = AtResearchNode.executed
    /\ UNCHANGED << run, mj, company_research, artifacts, context, pc, matched_jobs,
                    cur, now, first_error, completion, sent_at, delivery_result,
                    failures, task, exc, retries, other, publisher, subscriber >>

DriverNext ==
    \/ ResearchLoad
    \/ ResearchItem
    \/ ResearchResult
    \/ ResearchReturn
    \/ FabricationLoad
    \/ FabricationItem
    \/ FabricationResult
    \/ FabricationReturn
    \/ Switch
    \/ DriverRestart

DriverSpec == DriverInit /\ [][DriverNext]_vars

\* ------------------------------------------------------- status publisher
MaxPublished == 2

PublishInit ==
    /\ Init

\* Redis pub/sub: a published message is handed to the connections that are
\* subscribed to the channel at that moment, and kept for nobody else
deliver(sub, before, after) ==
    IF sub.subscribed /\ Len(after.channel) > Len(before.channel)
    THEN [sub EXCEPT !.inbox = Append(@, [type |-> "message",
                                         data |-> after.channel[Len(after.channel)]])]
    ELSE sub

\* One call of publish_run_status for the Run
PublishRunStatus ==
    /\ Len(publisher.channel) < MaxPublished
    /\ \E status \in Statuses, node \in Nodes, error_message \in ErrorMessages,
          outcome \in RedisOutcomes :
          /\ publisher' = publish_run_status(publisher,
                                             payload(status, node, error_message), outcome)
          /\ subscriber' = deliver(subscriber, publisher, publisher')
    /\ UNCHANGED << run, task, exc, retries, executions, other, pc >>
    /\ UNCHANGED workflow_vars

PublishNext == PublishRunStatus

PublishSpec == PublishInit /\ [][PublishNext]_vars

\* ------------------------------------------------- status stream (SSE)
MaxStream == 3

\* pubsub.get_message(ignore_subscribe_messages=True, timeout=...) returned
\* None: no message arrived within SSE_HEARTBEAT_INTERVAL_SEC
NoMessage == [ type |-> "none", data |-> {} ]

\* A stream that answers whatever it receives with a keep-alive comment
sse_events_keep_alive(message) == << [ kind |-> "keep-alive", data |-> {} ] >>

\* _sse_run_status_stream, the body of the loop: what is yielded for the
\* result of get_message (": keep-alive", "data: {data}", or nothing)
sse_events(message) ==
    IF message = NoMessage
    THEN << [ kind |-> "keep-alive", data |-> {} ] >>
    ELSE IF message.type = "message" /\ message.data # {}
    THEN << [ kind |-> "data", data |-> message.data ] >>
    ELSE << >>

\* _sse_run_status_stream, the finally block: unsubscribe, close the pubsub
\* and the client; an exception of these calls (the connection is gone) is
\* logged and swallowed
sse_close(sub, connection) ==
    [sub EXCEPT !.pc = "ended", !.subscribed = FALSE, !.connection = connection,
                !.inbox = << >>]

\* The generator is started: Redis.from_url, client.pubsub(), subscribe
Subscribe ==
    /\ subscriber.pc = "idle"
    /\ \E ok \in BOOLEAN :
          subscriber' = IF ok
                        THEN [subscriber EXCEPT !.pc = "loop", !.subscribed = TRUE,
                                                !.connection = "open"]
                        ELSE sse_close(subscriber, "lost")
    /\ UNCHANGED << run, pc, task, exc, retries, executions, other, publisher >>
    /\ UNCHANGED workflow_vars

\* One iteration of the loop: get_message returns the oldest message that
\* has arrived, or None once the heartbeat interval has passed without one
GetMessage ==
    /\ subscriber.pc = "loop"
    /\ Len(subscriber.stream) < MaxStream
    /\ LET message == IF subscriber.inbox # << >> THEN Head(subscriber.inbox)
                      ELSE NoMessage
       IN subscriber' =
            [subscriber EXCEPT
               !.inbox = IF @ # << >> THEN Tail(@) ELSE @,
               !.received = IF message # NoMessage THEN Append(@, message) ELSE @,
               !.stream = @ \o sse_events(message)]
    /\ UNCHANGED << run, pc, task, exc, retries, executions, other, publisher >>
    /\ UNCHANGED workflow_vars

\* The client disconnects (asyncio.CancelledError is thrown into the
\* generator and re-raised), or get_message raises because the connection to
\* Redis is lost; the finally block runs in both cases
StreamEnds ==
    /\ subscriber.pc = "loop"
    /\ \E connection \in {"closed", "lost"} :
          subscriber' = sse_close(subscriber, connection)
    /\ UNCHANGED << run, pc, task, exc, retries, executions, other, publisher >>
    /\ UNCHANGED workflow_vars

StreamNext ==
    \/ PublishRunStatus
    \/ Subscribe
    \/ GetMessage
    \/ StreamEnds

StreamSpec == PublishInit /\ [][StreamNext]_vars

\* ------------------------------------------------------------------ claims
Terminal(status) == status \in {"completed", "failed"}

\* C1: in one invocation of the job-search workflow's run(), once node k has
\* returned with context.errors non-empty, or has raised, none of the nodes
\* k+1..n is executed in that invocation.
PipelineHalt ==
    first_error # 0 => \A j \in executed : j <= first_error

\* C2: for each axis of every MatchedJob, in every reachable state, the status
\* is failed if and only if the axis has been attempted exactly max_retries
\* times and none of those attempts succeeded; the status is never failed
\* while attempts < max_retries.
RetryCeiling ==
    \A i \in Created :
       /\ mj[i].research_status = "failed"
            <=> (mj[i].research_attempts = max_retries
                 /\ failures[i].research = max_retries)
       /\ mj[i].fabrication_status = "failed"
            <=> (mj[i].fabrication_attempts = max_retries
                 /\ failures[i].fabrication = max_retries)

AdapterFinalStatus ==
    [][ (pc = "final" /\ pc' = "idle") =>
           IF has_errors(context)
           THEN /\ run'.status = "failed"
                /\ run'.error_message = JoinErrors(context.errors)
           ELSE run'.status = run.status ]_vars

\* C5: with the task re-driven again and again for the Run and any pattern of
\* provider successes and failures, every MatchedJob of the Run eventually has
\* research_status and fabrication_status in {completed, failed}, items whose
\* research ended in failed included.
EventuallyAllTerminal ==
    \A i \in Items :
       mj[i].created ~> (/\ Terminal(mj[i].research_status)
                         /\ Terminal(mj[i].fabrication_status))

ResearchFailedCounter ==
    run.research_failed_count =
       Cardinality({ i \in Created : mj[i].research_status = "failed" })

\* C8: in every reachable state Run.fabrication_failed_count equals the number
\* of the Run's MatchedJobs whose fabrication_status is failed (one increment
\* per item, on its first transition into failed).
FabricationFailedCounter ==
    run.fabrication_failed_count =
       Cardinality({ i \in Created : mj[i].fabrication_status = "failed" })

\* C9: delivery_triggered never returns to false, and once it is true no
\* further invocation of the delivery trigger changes delivery_triggered or
\* delivery_triggered_at.
DeliveryTriggeredOnce ==
    [][ run.delivery_triggered =>
           /\ run'.delivery_triggered
           /\ run'.delivery_triggered_at = run.delivery_triggered_at ]_vars

\* C10: at most one successful send to the e-mail provider happens per Run,
\* whatever the number of re-entries of the workflow.
AtMostOneSend ==
    Cardinality(sent_at) <= 1

\* C11: the e-mail provider is called for a Run only in states where every
\* MatchedJob of the Run is terminal on both axes; while some item has an axis
\* in pending or processing, no delivery is sent.
DeliveryOnlyWhenComplete ==
    [][ (delivery_result.status = "none"
         /\ delivery_result'.status \in {"delivered", "failed"})
        => \A i \in Created : /\ Terminal(mj[i].research_status)
                              /\ Terminal(mj[i].fabrication_status) ]_vars

NoItemsNoOp ==
    [][ (/\ delivery_result.status = "none"
         /\ delivery_result'.status # "none"
         /\ { i \in delivery_result'.found :
                 /\ mj[i].research_status = "completed"
                 /\ mj[i].fabrication_status = "completed"
                 /\ artifacts[i] > 0 } = {})
        => /\ delivery_result'.status = "no_items"
           /\ delivery_result'.completed_items = {}
           /\ sent_at' = sent_at
           /\ run'.delivery_triggered = run.delivery_triggered
           /\ run'.delivery_triggered_at = run.delivery_triggered_at ]_vars

\* C13, witness: the trigger has returned no_items for a Run that has
\* MatchedJobs, none of them deliverable.
NoItemsNoOpWitness ==
    /\ delivery_result.status = "no_items"
    /\ Created # {}
    /\ delivery_result.found = Created

AttemptsOnlyOnProcessing ==
    [][ \A i \in Items :
          /\ mj'[i].research_attempts # mj[i].research_attempts
               => /\ mj[i].research_status # "processing"
                  /\ mj'[i].research_status = "processing"
                  /\ mj'[i].research_attempts = mj[i].research_attempts + 1
          /\ mj'[i].fabrication_attempts # mj[i].fabrication_attempts
               => /\ mj[i].fabrication_status # "processing"
                  /\ mj'[i].fabrication_status = "processing"
                  /\ mj'[i].fabrication_attempts = mj[i].fabrication_attempts + 1 ]_vars

\* C16: for every MatchedJob and each axis, attempts never decreases across
\* any sequence of driver invocations, re-entries of the workflow included.
MonotonicAttempts ==
    [][ \A i \in Items :
          /\ mj'[i].research_attempts >= mj[i].research_attempts
          /\ mj'[i].fabrication_attempts >= mj[i].fabrication_attempts ]_vars

\* C16, witness: in a later execution of the task the matching node has run
\* again over an item that carries attempts on both axes.
MonotonicAttemptsWitness ==
    /\ now = "t2"
    /\ 3 \in executed
    /\ \E i \in Created : /\ mj[i].research_attempts >= 2
                          /\ mj[i].fabrication_attempts >= 2

\* C17: once an axis of a MatchedJob is completed, every later step of the
\* drivers leaves that axis's status and attempts unchanged and starts no
\* provider call for that item on that axis; the driver's visit of such an
\* item changes neither the Run's counters nor any MatchedJob.
CompletedAxisStable ==
    [][ /\ \A i \in Created :
             /\ mj[i].research_status = "completed"
                  => /\ mj'[i].research_status = "completed"
                     /\ mj'[i].research_attempts = mj[i].research_attempts
                     /\ ~(pc' = "research_call" /\ cur' = i)
             /\ mj[i].fabrication_status = "completed"
                  => /\ mj'[i].fabrication_status = "completed"
                     /\ mj'[i].fabrication_attempts = mj[i].fabrication_attempts
                     /\ ~(pc' = "fabrication_call" /\ cur' = i)
        /\ (/\ pc = "research" /\ matched_jobs # {}
            /\ mj[Min(matched_jobs)].research_status = "completed")
             => (run' = run /\ mj' = mj /\ company_research' = company_research)
        /\ (/\ pc = "fabrication" /\ matched_jobs # {}
            /\ mj[Min(matched_jobs)].fabrication_status = "completed")
             => (run' = run /\ mj' = mj /\ artifacts' = artifacts) ]_vars

\* C17, witness: in a later execution both drivers have passed over an item
\* that was already completed on both axes.
CompletedAxisStableWitness ==
    /\ now = "t2"
    /\ {4, 5} \subseteq executed
    /\ pc = "nodes"
    /\ \E i \in Created : /\ mj[i].research_status = "completed"
                          /\ mj[i].fabrication_status = "completed"
                          /\ mj[i].research_attempts = 1
                          /\ \E j \in Created : mj[j].research_attempts = 3

\* C18: on a Run that is complete the completion detector writes
\* status = completed and completed_at exactly once, on the first call that
\* finds the Run complete; no later call changes a field of the Run.
CompletedAtWrittenOnce ==
    [][ /\ run.completed_at # "t0" => run'.completed_at = run.completed_at
        /\ (pc = "nodes" /\ i_node = 6 /\ run.completed_at # "t0")
             => run' = run ]_vars

\* A provider client error: ModelHTTPError with 400 <= status < 500
ClientError(e) ==
    e.type = "ModelHTTPError" /\ 400 <= e.status_code /\ e.status_code < 500

\* C19: if the exception escaping the workflow is a provider client error,
\* directly or anywhere in its __cause__ chain, the task marks the Run failed
\* and re-raises without re-enqueuing the task; no retry is consumed.
ClientErrorNotRetried ==
    [][ (pc = "except" /\ \E k \in 1..Len(exc) : ClientError(exc[k]))
        => /\ run'.status = "failed"
           /\ pc' = "raised"
           /\ retries' = retries ]_vars

\* C20: when a retryable exception escapes the workflow the task is enqueued
\* again for the same Run; the workflow is executed at most 1 + 3 times for
\* the request, and when the retries are exhausted the Run's status is failed
\* with the error message recorded.
RetryBudget ==
    /\ [](executions <= 1 + task_max_retries)
    /\ []((pc = "raised" /\ task = "job_search")
            => (run.status = "failed" /\ run.error_message = str(exc[1])))
    /\ [][ (/\ pc = "except" /\ task = "job_search"
            /\ is_retryable(exc) /\ retries < task_max_retries)
           => (pc' = "queued" /\ retries' = retries + 1) ]_vars

\* C20, witness: the fourth execution of the job-search task has raised a
\* retryable exception and the task has given up.
RetryBudgetWitness ==
    /\ task = "job_search"
    /\ pc = "raised"
    /\ executions = 1 + task_max_retries
    /\ is_retryable(exc)
    /\ run.status = "failed"

\* JobSearchWorkflow.run recorded the exception of a node in the context
NodeFailureRecorded(c) ==
    \E k \in 1..Len(c.errors) : c.errors[k] = "Node DiscoveryNode failed"

\* C21: when a node has raised a transient infrastructure exception (the
\* job-search provider's client raising in DiscoveryNode), the task is
\* re-enqueued by the adapter (self.request.retries grows, the workflow is
\* re-entered from the top) instead of the Run being finalized as failed.
NodeExceptionRetried ==
    [][ (pc = "final" /\ NodeFailureRecorded(context))
        => (retries' = retries + 1 /\ run'.status # "failed") ]_vars

\* C22: an execution that re-enters the workflow for a Run that already has
\* MatchedJob rows adds no further rows.
MatchedJobRowsOnce ==
    [][ (now = "t2" /\ Created # {}) => Created' = Created ]_vars

\* MatchingNode._validate_context rejects the context
MatchingValidationError == "Jobs list or job_search_id is required for matching step"

ValidationFailed(c) ==
    \E k \in 1..Len(c.errors) : c.errors[k] = MatchingValidationError

ItemFailureContained ==
    [][ /\ (failures' # failures)
           => /\ context' = context
              /\ run'.status = run.status
              /\ run'.error_message = run.error_message
              /\ pc' \in {"research", "fabrication"}
              /\ \E i \in matched_jobs : matched_jobs' = matched_jobs \ {i}
        /\ (pc = "final" /\ first_error = 0) => run'.status # "failed"
      ]_vars

ItemFailureContainedWitness ==
    /\ now = "t1" /\ pc = "idle"
    /\ failures[1].research = 1
    /\ mj[2].research_status = "completed"
    /\ run.status = "completed"

\* C25: when MatchingNode has returned without error and the Run has no
\* MatchedJob row, none of ResearchNode, FabricationNode, CompletionNode and
\* DeliveryNode is run.
ZeroMatchesShortCircuit ==
    (pc = "nodes" /\ 3 \in executed /\ first_error = 0 /\ Created = {})
        => executed \cap {4, 5, 6, 7} = {}

\* C26: the nodes are run in the order of the declared list, each after the
\* one before it has returned; no research is in flight once fabrication has
\* started; the completion check comes after FabricationNode and the delivery
\* trigger after the completion check.
NodeOrder ==
    /\ pc = "nodes" => executed = 1..(i_node - 1)
    /\ pc \in {"research", "research_call"} => executed = 1..4
    /\ pc \in {"fabrication", "fabrication_call"}
          => /\ executed = 1..5
             /\ \A i \in Items : mj[i].research_status # "processing"
    /\ pc = "final" => executed = 1..7
    /\ completion # "unchecked" => 5 \in executed
    /\ delivery_result.status # "none"
          => (6 \in executed /\ completion # "unchecked")

NodeOrderWitness ==
    /\ delivery_result.status = "delivered"
    /\ pc = "final" /\ executed = 1..7
    /\ \E i \in Items : mj[i].fabrication_status = "completed"

\* C27: when the driver reaches an item that is neither completed nor failed
\* at the ceiling and a CompanyResearch row exists for its posting, the item
\* is set to completed with its attempts unchanged, no provider call is
\* started, no research row is written and research_completed_count grows by
\* one.
ExistingResearchReused ==
    [][ (/\ pc = "research" /\ matched_jobs # {} /\ other' = other
         /\ ~ResearchAlreadyCompleted(mj[Min(matched_jobs)])
         /\ ~ResearchRetriesExceeded(mj[Min(matched_jobs)])
         /\ Min(matched_jobs) \in company_research
         /\ matched_jobs' # matched_jobs
         /\ failures' = failures)
        => /\ mj' = [mj EXCEPT ![Min(matched_jobs)].research_status = "completed"]
           /\ run' = [run EXCEPT !.research_completed_count = @ + 1]
           /\ pc' = "research" /\ cur' = cur
           /\ company_research' = company_research
      ]_vars

ExistingResearchReusedWitness ==
    /\ mj[1].research_status = "completed"
    /\ mj[1].research_attempts = 2
    /\ failures[1].research = 1
    /\ run.research_completed_count = 2

CountersBounded ==
    /\ run.research_completed_count
          <= Cardinality({ i \in Created : mj[i].research_status = "completed" })
    /\ run.fabrication_completed_count
          <= Cardinality({ i \in Created : mj[i].fabrication_status = "completed" })
    /\ run.research_failed_count
          <= Cardinality({ i \in Created : mj[i].research_status = "failed" })
    /\ run.fabrication_failed_count
          <= Cardinality({ i \in Created : mj[i].fabrication_status = "failed" })

\* C30: publish_run_status never raises, whatever the Redis client does; the
\* call changes nothing but the channel: the Run, the position of the task and
\* its retry count stay as they are, and a message that could not be
\* published is not on the channel.
PublishNeverRaises ==
    [][ (publisher' # publisher)
        => /\ ~publisher'.raised
           /\ run' = run /\ mj' = mj
           /\ pc' = pc /\ retries' = retries /\ exc' = exc
           /\ (publisher'.outcome = "unavailable"
                 => publisher'.channel = publisher.channel)
      ]_vars

PublishNeverRaisesWitness ==
    /\ publisher.outcome = "unavailable"
    /\ ~publisher.raised
    /\ Len(publisher.channel) = 1

\* The statuses carried by the events on the channel, in publication order
announced(p) ==
    [ k \in 1..Len(p.channel) |->
        CHOOSE st \in Statuses : << "status", st >> \in p.channel[k] ]

\* C31: every change of Run.status made while the task executes is followed
\* by an event carrying that status: when the task finalizes a Run that the
\* completion detector has set to completed during this execution, an event
\* carrying completed has been published for the Run.
StatusChangesAnnounced ==
    [][ (pc = "final" /\ run.status = "completed")
        => \E k \in 1..Len(publisher'.channel) :
              announced(publisher')[k] = "completed" ]_vars

\* The "data:" events of an SSE stream, in the order they were yielded
DataEvents(stream) == SelectSeq(stream, LAMBDA e : e.kind = "data")

HasCleanupMarker(e) == \E k \in 1..Len(e) : e[k].cleanup_marker

\* C33: in the profiling task, an escaping "Event loop is closed"
\* RuntimeError whose traceback contains a cleanup marker marks the Run
\* completed with the soft-success warning as error_message, the task returns
\* and is not retried; the same error without a marker is not classified as a
\* cleanup error: the Run is marked failed and the task does not return
\* normally.
SoftSuccess ==
    [][ (pc = "except" /\ task = "profiling"
         /\ exc[1].type = "RuntimeError" /\ exc[1].loop_closed)
        => IF HasCleanupMarker(exc)
           THEN /\ run'.status = "completed"
                /\ run'.error_message = "soft-success warning"
                /\ pc' = "succeeded"
                /\ retries' = retries
           ELSE /\ ~is_httpx_cleanup_event_loop_error(exc)
                /\ run'.status = "failed"
                /\ pc' \in {"queued", "raised"}
      ]_vars

SoftSuccessWitness ==
    /\ task = "profiling"
    /\ pc = "succeeded"
    /\ exc # << >>
    /\ run.status = "completed"
    /\ run.error_message = "soft-success warning"

\* C34: in every reachable state, Run.status = completed implies that the
\* Run has no MatchedJob or that every MatchedJob of the Run is completed or
\* failed on both axes.
CompletedImpliesItemsTerminal ==
    run.status = "completed"
        => \/ Created = {}
           \/ \A i \in Created : /\ Terminal(mj[i].research_status)
                                 /\ Terminal(mj[i].fabrication_status)

\* C35: Run.status only moves forward, and completed and failed are
\* absorbing: across task retries a Run that has been marked failed or
\* completed is never set back to processing or to the other terminal status.
StatusAbsorbing ==
    [][ Terminal(run.status) => run'.status = run.status ]_vars

TotalMatchedJobs ==
    /\ (3 \in executed /\ pc # "idle")
          => run.total_matched_jobs = Cardinality(Created)
    /\ run.research_completed_count + run.research_failed_count
          <= run.total_matched_jobs
    /\ run.fabrication_completed_count + run.fabrication_failed_count
          <= run.total_matched_jobs
====
